---- MODULE Spec2Model ----
(***************************************************************************)
(* Model of the disaggregator library (src/disaggregator/spatial.py and    *)
(* src/disaggregator/temporal.py).                                         *)
(*                                                                         *)
(* The library is a set of functions over tables.  A state of the model is *)
(* the most recent call of one of them: the arguments and reference tables *)
(* it read, and what it returned or raised.  probability_light_needed is a *)
(* loop over the days of a year and is modelled day by day.                *)
(*                                                                         *)
(* Numbers are exact rationals <<n, d>> (d > 0, lowest terms); <<0, 0>> is *)
(* the non-finite value (inf, NaN) a division by zero yields in pandas.    *)
(* Floating-point rounding is not modelled.  A pandas Series indexed by    *)
(* region is a function on Regions, a DataFrame a function from its row    *)
(* labels to functions on its column labels, so label alignment is         *)
(* function application.                                                   *)
(***************************************************************************)
EXTENDS Integers, Sequences, FiniteSets, TLC

\* ---------------------------------------------------------------- bounds
NRegions == 2      \* number of regions in every region-indexed table
MaxVal == 2        \* largest entry of a reference table
NTimes == 2        \* number of time steps of a reference time series

Regions == 1..NRegions
Times == 1..NTimes
HHSizes == {1, 2}                 \* column labels of households_per_size()
BuildingTypes == {"MFH"}          \* column labels of living_space()
Vals == {1, MaxVal}               \* entries of a table that is never empty
Vals0 == 0..MaxVal                \* entries of a table that may hold zeros

\* ------------------------------------------------------ exact arithmetic
Abs(n) == IF n < 0 THEN -n ELSE n

RECURSIVE GCD(_, _)
GCD(a, b) == IF b = 0 THEN a ELSE GCD(b, a % b)

NonFinite == <<0, 0>>
IsFinite(x) == x[2] # 0

Norm(n, d) ==
  IF d = 0 THEN NonFinite
  ELSE LET s == IF d < 0 THEN -1 ELSE 1
           g == GCD(Abs(n), Abs(d))
       IN  <<(s * n) \div g, (s * d) \div g>>

Rat(n) == <<n, 1>>
RAdd(x, y) ==
  IF ~IsFinite(x) \/ ~IsFinite(y) THEN NonFinite
  ELSE Norm(x[1] * y[2] + y[1] * x[2], x[2] * y[2])
RSub(x, y) ==
  IF ~IsFinite(x) \/ ~IsFinite(y) THEN NonFinite
  ELSE Norm(x[1] * y[2] - y[1] * x[2], x[2] * y[2])
RMul(x, y) ==
  IF ~IsFinite(x) \/ ~IsFinite(y) THEN NonFinite
  ELSE Norm(x[1] * y[1], x[2] * y[2])
RDiv(x, y) ==
  IF ~IsFinite(x) \/ ~IsFinite(y) THEN NonFinite
  ELSE Norm(x[1] * y[2], x[2] * y[1])

\* Series.sum() / DataFrame.sum(axis=1): the sum of f over the label set S
RECURSIVE SumOver(_, _)
SumOver(f, S) ==
  IF S = {} THEN Rat(0)
  ELSE LET k == CHOOSE k \in S : TRUE
       IN  RAdd(f[k], SumOver(f, S \ {k}))

\* a table of integers as a table of rationals
ToRat(ser) == [k \in DOMAIN ser |-> Rat(ser[k])]
ToRat2(df) == [r \in DOMAIN df |-> ToRat(df[r])]
RowSums(df) == [r \in DOMAIN df |-> SumOver(df[r], DOMAIN df[r])]
Total(ser) == SumOver(ser, DOMAIN ser)


\* ------------------------------------------------------------------ state
VARIABLES
  call,             \* the most recent call: function, selector, flags
  tables,           \* the reference tables that call read from .data
  ret,              \* what it returned (kind "table") or raised
  income_adjusted,  \* whether adjust_by_income ran in that call
  spat, temp,       \* the caller's objects passed to disagg_temporal, now
  spat_in, temp_in, \* ... and as they were when the call was made
  \* probability_light_needed, one step per day of its innermost loop:
  pc,               \* "idle", "loop", "done" (returned) or "ValueError"
  lat, lon, nTsLP,  \* its arguments
  season_id, mi, d, \* loop positions: season, index into its months, day
  doy,              \* day of year
  p_night,          \* p_night[season][t], counted in units of `add`
  today,            \* the day just processed: sunrise, sunset, NEnd, NBeg, ...
  night_days        \* per season and step: days with the step outside daylight

spatial_vars == <<call, tables, ret, income_adjusted>>
temporal_vars == <<spat, temp, spat_in, temp_in>>
light_vars == <<pc, lat, lon, nTsLP, season_id, mi, d, doy, p_night, today, night_days>>
vars == <<spatial_vars, temporal_vars, light_vars>>

NotRead == <<>>
NoTables ==
  [population |-> NotRead, households_per_size |-> NotRead,
   living_space |-> NotRead, income |-> NotRead, elc_consumption |-> NotRead,
   gas_consumption |-> NotRead, heat_consumption |-> NotRead,
   stove_assumptions |-> NotRead, hotwater_shares |-> NotRead]

Returned(df) == [kind |-> "table", df |-> df]
Raised(exc) == [kind |-> exc, df |-> NotRead]

\* --------------------------------------------- reference tables (.data)
PopulationTables == [Regions -> Vals0]
HouseholdTables == [Regions -> [HHSizes -> Vals]]
LivingSpaceTables == [Regions -> [BuildingTypes -> Vals]]
IncomeTables == [Regions -> Vals]
GasApplications == {"Cooking", "HotWater", "SpaceHeating"}

\* heat_consumption_HH(by=...): rows are applications, columns are the
\* household sizes ('households') or the building types ('buildings')
HeatApplications(by) ==
  IF by = "households" THEN {"Cooking", "HotWater"}
  ELSE {"SpaceHeatingOnly", "SpaceHeatingPlusHotWater"}
HeatColumns(by) == IF by = "households" THEN HHSizes ELSE BuildingTypes
HeatConsumptionTables(by) == [HeatApplications(by) -> [HeatColumns(by) -> Vals]]

\* ------------------------------------------------------- spatial.py
Kilo == 1000

Mean(ser) == RDiv(Total(ser), Rat(Cardinality(DOMAIN ser)))

\* adjust_by_income: every row r of df times income[r] / mean(income)
adjust_by_income(df, income) ==
  LET income_keys == [r \in Regions |-> RDiv(Rat(income[r]), Mean(ToRat(income)))]
  IN  [r \in DOMAIN df |-> [c \in DOMAIN df[r] |-> RMul(df[r][c], income_keys[r])]]

\* (variant: divides by the largest entry instead of the sum)
MaxNormalizedKeys(ser) ==
  LET m == CHOOSE m \in {ser[k] : k \in DOMAIN ser} :
             \A k \in DOMAIN ser : RSub(m, ser[k])[1] >= 0
  IN  [r \in DOMAIN ser |-> RDiv(ser[r], m)]
\* the distribution keys `ser / ser.sum()`
DistributionKeys(ser) == [r \in DOMAIN ser |-> RDiv(ser[r], Total(ser))]

\* a Series result is a table with the single column "value"
AsTable(ser) == [r \in DOMAIN ser |-> [c \in {"value"} |-> ser[r]]]

\* disagg_households_power, by == 'households'
PowerByHouseholds(hh, elc_by_size) ==
  LET power_per_HH == [s \in HHSizes |-> RDiv(Rat(elc_by_size[s]), Rat(Kilo))]
  IN  [r \in Regions |-> [s \in HHSizes |-> RMul(Rat(hh[r][s]), power_per_HH[s])]]

\* disagg_households_power, by == 'population'
PowerByPopulation(pop, elc) ==
  LET power_nuts0 == RDiv(Rat(elc), Rat(Kilo))
      distribution_keys == DistributionKeys(ToRat(pop))
  IN  AsTable([r \in Regions |-> RMul(distribution_keys[r], power_nuts0)])

\* (variant: no else branch, every other `by` is treated as 'population')
PowerBranchNoElse(by) == IF by = "households" THEN "households" ELSE "population"
\* which branch of disagg_households_power a value of `by` takes
PowerBranch(by) ==
  IF by = "households" THEN "households"
  ELSE IF by = "population" THEN "population"
  ELSE "ValueError"

\* the tail shared by the power and gas functions:
\*   if weight_by_income: df = adjust_by_income(df=df);  return df
ReturnWeighted(c, tb, df) ==
  /\ call' = c
  /\ \/ /\ c.weight_by_income
        /\ \E inc \in IncomeTables :
             /\ tables' = [tb EXCEPT !.income = inc]
             /\ ret' = Returned(adjust_by_income(df, inc))
        /\ income_adjusted' = TRUE
     \/ /\ ~c.weight_by_income
        /\ tables' = tb
        /\ ret' = Returned(df)
        /\ income_adjusted' = FALSE

\* the tail of disagg_households_heat: `return df`, whatever weight_by_income
\* is.  tables.income records the income() table of the data set when
\* weighting was asked for, although this function never reads it.
ReturnUnweighted(c, tb, df) ==
  /\ call' = c
  /\ \/ /\ c.weight_by_income
        /\ \E inc \in IncomeTables : tables' = [tb EXCEPT !.income = inc]
     \/ /\ ~c.weight_by_income
        /\ tables' = tb
  /\ ret' = Returned(df)
  /\ income_adjusted' = FALSE

Raise(c, exc) ==
  /\ call' = c
  /\ tables' = NoTables
  /\ ret' = Raised(exc)
  /\ income_adjusted' = FALSE

Selectors == {"households", "population", "buildings", "top-down", "bottom-up", "other"}

\* a call starts from the idle state: the functions keep no state between calls
Idle == call.fn = "none" /\ pc = "idle"

disagg_households_power ==
  /\ Idle
  /\ \E by \in Selectors, w \in BOOLEAN :
       LET c == [fn |-> "disagg_households_power", sel |-> by, weight_by_income |-> w]
       IN  \/ /\ PowerBranch(by) = "households"
              /\ \E hh \in HouseholdTables, elc \in [HHSizes -> Vals] :
                   \E df \in {PowerByHouseholds(hh, elc)} :
                     ReturnWeighted(c,
                       [NoTables EXCEPT !.households_per_size = hh, !.elc_consumption = elc], df)
           \/ /\ PowerBranch(by) = "population"
              /\ \E pop \in PopulationTables, elc \in Vals :
                   \E df \in {PowerByPopulation(pop, elc)} :
                     ReturnWeighted(c,
                       [NoTables EXCEPT !.population = pop, !.elc_consumption = elc], df)
           \/ /\ PowerBranch(by) = "ValueError"
              /\ Raise(c, "ValueError")
  /\ UNCHANGED <<temporal_vars, light_vars>>

\* the guard of disagg_households_heat: `by not in ['households', 'buildings']`
HeatBranch(by) == IF by \notin {"households", "buildings"} THEN "ValueError" ELSE by

\* the body of disagg_households_heat: column (idx, col) of the result is
\* column col of the base table times heat_consumption_HH(by)[idx][col]
HeatDemand(by, base, heat_consumption) ==
  [r \in Regions |->
     [k \in HeatApplications(by) \X HeatColumns(by) |->
        RMul(Rat(base[r][k[2]]), Rat(heat_consumption[k[1]][k[2]]))]]

\* weight_by_income is accepted and never read
disagg_households_heat ==
  /\ Idle
  /\ \E by \in Selectors, w \in BOOLEAN :
       LET c == [fn |-> "disagg_households_heat", sel |-> by, weight_by_income |-> w]
       IN  \/ /\ HeatBranch(by) = "households"
              /\ \E hh \in HouseholdTables, hc \in HeatConsumptionTables(by) :
                   ReturnUnweighted(c,
                     [NoTables EXCEPT !.households_per_size = hh, !.heat_consumption = hc],
                     HeatDemand(by, hh, hc))
           \/ /\ HeatBranch(by) = "buildings"
              /\ \E ls \in LivingSpaceTables, hc \in HeatConsumptionTables(by) :
                   ReturnUnweighted(c,
                     [NoTables EXCEPT !.living_space = ls, !.heat_consumption = hc],
                     HeatDemand(by, ls, hc))
           \/ /\ HeatBranch(by) = "ValueError"
              /\ Raise(c, "ValueError")
  /\ UNCHANGED <<temporal_vars, light_vars>>

\* disagg_households_gas, how == 'top-down'
GasTopDown(ls_gas, hh, gas_nuts0) ==
  LET df_ls_gas == RowSums(ToRat2(ls_gas))
      df_HH == RowSums(ToRat2(hh))
      d_keys_space == DistributionKeys(df_ls_gas)
      d_keys_HW_cook == DistributionKeys(df_HH)
  IN  [r \in Regions |->
         [Cooking |-> RMul(d_keys_HW_cook[r], Rat(gas_nuts0["Cooking"])),
          HotWater |-> RMul(d_keys_HW_cook[r], Rat(gas_nuts0["HotWater"])),
          SpaceHeating |-> RMul(d_keys_space[r], Rat(gas_nuts0["SpaceHeating"]))]]

\* The rows of stove_assumptions() and hotwater_shares() are federal states;
\* `filter(axis=0, regex=idx)` selects the regions of one state.
FederalStates == {"A", "B"}
StateOf(r) == IF r % 2 = 1 THEN "A" ELSE "B"
BoilerEfficiency == <<19, 20>>

\* disagg_households_gas, how == 'bottom-up'
GasBottomUp(hh, hc_households, ls_gas, hc_buildings, df_stove, df_WW_shares) ==
  LET df_heat_dem == HeatDemand("households", hh, hc_households)
      df_heat_cook == [r \in Regions |-> [s \in HHSizes |->
          RDiv(RMul(df_heat_dem[r][<<"Cooking", s>>],
                    df_stove[StateOf(r)].stoves_percentage_gas),
               df_stove[StateOf(r)].stoves_efficiency_gas)]]
      df_WW == [r \in Regions |-> [s \in HHSizes |->
          RDiv(RMul(df_heat_dem[r][<<"HotWater", s>>],
                    df_WW_shares[StateOf(r)].share_decentralised_gas),
               BoilerEfficiency)]]
      df_spaceheat == [r \in Regions |-> [b \in BuildingTypes |->
          RMul(RMul(Rat(ls_gas[r][b]), Rat(hc_buildings["SpaceHeatingOnly"][b])),
               RSub(Rat(1), df_WW_shares[StateOf(r)].share_centralised))]]
      df_spaceheat_HW == [r \in Regions |-> [b \in BuildingTypes |->
          RMul(RMul(Rat(ls_gas[r][b]), Rat(hc_buildings["SpaceHeatingPlusHotWater"][b])),
               df_WW_shares[StateOf(r)].share_centralised)]]
  IN  [r \in Regions |->
         [Cooking |-> Total(df_heat_cook[r]),
          HotWaterDecentral |-> Total(df_WW[r]),
          SpaceHeatingOnly |-> Total(df_spaceheat[r]),
          SpaceHeatingPlusHotWater |-> Total(df_spaceheat_HW[r])]]

\* the parameter tables the bottom-up branch reads, as two sample data sets
UniformHeat(by, v) == [a \in HeatApplications(by) |-> [c \in HeatColumns(by) |-> v]]
BottomUpAssumptions ==
  { [hc_households |-> UniformHeat("households", 1),
     hc_buildings |-> UniformHeat("buildings", MaxVal),
     stove |-> [f \in FederalStates |->
                  [stoves_percentage_gas |-> <<1, 2>>, stoves_efficiency_gas |-> <<3, 4>>]],
     hotwater |-> [f \in FederalStates |->
                  [share_decentralised_gas |-> <<1, 4>>, share_centralised |-> <<1, 2>>]]],
    [hc_households |-> UniformHeat("households", MaxVal),
     hc_buildings |-> UniformHeat("buildings", 1),
     stove |-> [f \in FederalStates |->
                  [stoves_percentage_gas |-> IF f = "A" THEN <<1, 4>> ELSE <<3, 4>>,
                   stoves_efficiency_gas |-> <<1, 2>>]],
     hotwater |-> [f \in FederalStates |->
                  [share_decentralised_gas |-> IF f = "A" THEN <<1, 2>> ELSE <<1, 4>>,
                   share_centralised |-> <<1, 4>>]]] }

\* which branch of disagg_households_gas a value of `how` takes; with any
\* other value `df` is never bound and reading it raises UnboundLocalError
GasBranch(how) ==
  IF how = "top-down" THEN "top-down"
  ELSE IF how = "bottom-up" THEN "bottom-up"
  ELSE "UnboundLocalError"

disagg_households_gas ==
  /\ Idle
  /\ \E how \in Selectors, w \in BOOLEAN :
       LET c == [fn |-> "disagg_households_gas", sel |-> how, weight_by_income |-> w]
       IN  \/ /\ GasBranch(how) = "top-down"
              /\ \E ls \in LivingSpaceTables, hh \in HouseholdTables,
                    gas_nuts0 \in [GasApplications -> Vals] :
                   \E df \in {GasTopDown(ls, hh, gas_nuts0)} :
                     ReturnWeighted(c,
                       [NoTables EXCEPT !.living_space = ls, !.households_per_size = hh,
                                      !.gas_consumption = gas_nuts0], df)
           \/ /\ GasBranch(how) = "bottom-up"
              /\ \E ls \in LivingSpaceTables, hh \in HouseholdTables,
                    a \in BottomUpAssumptions :
                   \E df \in {GasBottomUp(hh, a.hc_households, ls, a.hc_buildings, a.stove, a.hotwater)} :
                     ReturnWeighted(c,
                       [NoTables EXCEPT !.living_space = ls, !.households_per_size = hh,
                                      !.heat_consumption = <<a.hc_households, a.hc_buildings>>,
                                      !.stove_assumptions = a.stove,
                                      !.hotwater_shares = a.hotwater], df)
           \/ /\ GasBranch(how) = "UnboundLocalError"
              /\ Raise(c, "UnboundLocalError")
  /\ UNCHANGED <<temporal_vars, light_vars>>

\* ------------------------------------------------------- temporal.py
\* A disagg_temporal argument is a record [kind, data]: a Series, a DataFrame,
\* or an object of another type.  A DataFrame `spat` is flattened to a Series
\* by unstack() before anything else happens, so `spat` is modelled from the
\* flattened Series on; its labels are the regions.
Series(f) == [kind |-> "Series", data |-> f]
DataFrame(f) == [kind |-> "DataFrame", data |-> f]
Other == [kind |-> "other", data |-> NotRead]

SpatArguments == {Series(ToRat(f)) : f \in [Regions -> Vals0]} \cup {Other}
TempArguments ==
  {Series(ToRat(f)) : f \in [Times -> Vals0]}
    \cup {DataFrame(ToRat2(f)) : f \in [Regions -> [Times -> Vals]]}
    \cup {Other}

\* (variant: divides by the number of entries instead of their sum)
NormalizeByCount(ser) ==
  [t \in DOMAIN ser |-> RDiv(ser[t], Rat(Cardinality(DOMAIN ser)))]
\* `temp /= temp.sum()`
NormalizeSeries(ser) == [t \in DOMAIN ser |-> RDiv(ser[t], Total(ser))]
\* `temp.div(temp.sum(axis=1), axis='index')`
NormalizeRows(df) == [r \in DOMAIN df |-> NormalizeSeries(df[r])]
\* np.outer(a, b)
Outer(a, b) == [i \in DOMAIN a |-> [j \in DOMAIN b |-> RMul(a[i], b[j])]]
\* df.multiply(ser, axis=0): row r of df times ser[r]
MultiplyRows(df, ser) ==
  [r \in DOMAIN df |-> [t \in DOMAIN df[r] |-> RMul(df[r][t], ser[r])]]

\* a result frame: what its rows and columns are labelled with, and its cells
Frame(index, columns, cell) == [index |-> index, columns |-> columns, cell |-> cell]
\* DataFrame.T
Transpose(fr) ==
  Frame(fr.columns, fr.index,
        LET rows == DOMAIN fr.cell
            cols == DOMAIN fr.cell[CHOOSE i \in rows : TRUE]
        IN  [j \in cols |-> [i \in rows |-> fr.cell[i][j]]])

\* disagg_temporal(spat, temp, time_indexed): what it returns or raises, and
\* the value the caller's `temp` object holds afterwards.  The Series branch
\* normalizes with the in-place operator `/=`, which writes into the caller's
\* Series; the DataFrame branch rebinds the local name to a new frame.
DisaggTemporal(s, t, time_indexed) ==
  IF s.kind # "Series" THEN [ret |-> Raised("ValueError"), temp |-> t]
  ELSE IF t.kind = "Series" THEN
    LET normalized == NormalizeSeries(t.data)
    IN  [ret |-> Returned(IF time_indexed
                          THEN Frame("time", "region", Outer(normalized, s.data))
                          ELSE Frame("region", "time", Outer(s.data, normalized))),
         temp |-> Series(normalized)]
  ELSE IF t.kind = "DataFrame" THEN
    LET normalized == Frame("region", "time", NormalizeRows(t.data))
        product == [normalized EXCEPT !.cell = MultiplyRows(normalized.cell, s.data)]
    IN  [ret |-> Returned(IF time_indexed THEN product ELSE Transpose(product)),
         temp |-> t]
  ELSE [ret |-> Raised("ValueError"), temp |-> t]

disagg_temporal ==
  /\ Idle
  /\ \E s \in SpatArguments, t \in TempArguments, time_indexed \in BOOLEAN :
       \E out \in {DisaggTemporal(s, t, time_indexed)} :
         /\ call' = [fn |-> "disagg_temporal", time_indexed |-> time_indexed]
         /\ spat_in' = s /\ temp_in' = t
         /\ spat' = s
         /\ temp' = out.temp
         /\ ret' = out.ret
  /\ UNCHANGED <<tables, income_adjusted, light_vars>>

\* ------------------------------ temporal.py: probability_light_needed
\* Reals are fixed-point integers: the real x is the integer x * One, and
\* every operation rounds to a multiple of 1 / One.  Products are formed from
\* the halves of their factors to stay within 32-bit integers.
Thousand == 10 * 10 * 10
One == Thousand * Thousand
Fix(n) == n * One
\* math.pi, and its half and double for the argument reduction of math.sin
Pi == 3141593
HalfPi == Pi \div 2
TwoPi == 2 * Pi

MulPos(a, b) ==
  LET a1 == a \div Thousand  a0 == a % Thousand
      b1 == b \div Thousand  b0 == b % Thousand
  IN  a1 * b1 + (a1 * b0 + a0 * b1) \div Thousand + (a0 * b0) \div One
FMul(a, b) ==
  IF (a < 0) = (b < 0) THEN MulPos(Abs(a), Abs(b)) ELSE -MulPos(Abs(a), Abs(b))

RECURSIVE Pow10(_)
Pow10(k) == IF k = 0 THEN 1 ELSE 10 * Pow10(k - 1)
RECURSIVE FracDigits(_, _, _)
FracDigits(r, b, k) ==
  IF k = 0 THEN 0
  ELSE ((r * 10) \div b) * Pow10(k - 1) + FracDigits((r * 10) % b, b, k - 1)
DivPos(a, b) == (a \div b) * One + FracDigits(a % b, b, 6)
FDiv(a, b) ==
  IF (a < 0) = (b < 0) THEN DivPos(Abs(a), Abs(b)) ELSE -DivPos(Abs(a), Abs(b))

\* math.sin: the argument reduced to [-pi/2, pi/2], then the Taylor series
RECURSIVE SinSeries(_, _, _, _)
SinSeries(x2, term, n, acc) ==
  IF n > 13 THEN acc
  ELSE LET t == FMul(term, x2)
           q == Abs(t) \div ((n + 1) * (n + 2))
           next == IF t > 0 THEN -q ELSE q
       IN  SinSeries(x2, next, n + 2, acc + next)
FSin(x) ==
  LET y0 == x % TwoPi
      y1 == IF y0 > Pi THEN y0 - TwoPi ELSE y0
      y == IF y1 > HalfPi THEN Pi - y1
           ELSE IF y1 < -HalfPi THEN -Pi - y1 ELSE y1
  IN  SinSeries(FMul(y, y), y, 1, y)
FCos(x) == FSin(x + HalfPi)

\* math.acos on [-1, 1], by bisection of the cosine on [0, pi]
RECURSIVE ACosBisect(_, _, _, _)
ACosBisect(y, lo, hi, k) ==
  IF k = 0 THEN lo
  ELSE LET mid == (lo + hi) \div 2
       IN  IF FCos(mid) > y THEN ACosBisect(y, mid, hi, k - 1)
           ELSE ACosBisect(y, lo, mid, k - 1)
FACos(y) == IF y >= One THEN 0 ELSE ACosBisect(y, 0, Pi, 23)

\* int(x): towards zero;  floor and ceiling, for the claims
Trunc(x) == IF x >= 0 THEN x \div One ELSE -((-x) \div One)
Floor(x) == x \div One
Ceil(x) == -((-x) \div One)

Min(a, b) == IF a < b THEN a ELSE b
Max(a, b) == IF a > b THEN a ELSE b

\* getSunsetSunrise(doy, lat, lon, UTC_diff): [ok, sunset, sunrise]; math.acos
\* raises ValueError (ok = FALSE) for an argument below -1
getSunsetSunrise(day, la, lo, UTC_diff) ==
  LET B == FDiv(FMul(Pi, Fix(la)), Fix(180))
      declination_sun == FMul(409500, FSin(FMul(16906, Fix(day) - 80086000)))
      light_h == Fix(12)
      sunset_h == FDiv(light_h, FDiv(Fix(180), Pi))
      time_diff_arg ==
        Min(FDiv(FSin(sunset_h) - FMul(FSin(B), FSin(declination_sun)),
                 FMul(FCos(B), FCos(declination_sun))),
            One)
      time_diff == FDiv(12 * FACos(time_diff_arg), Pi)
      time_equation == FMul(-171000, FSin(FMul(33700, Fix(day)) + 465000))
                         - FMul(129900, FSin(FMul(17870, Fix(day)) - 168000))
      sunset_MOZ == Fix(12) + time_diff - time_equation
      sunrise_MOZ == Fix(12) - time_diff - time_equation
      MOZ_MEZ_diff == -FDiv(Fix(lo), Fix(15)) + Fix(UTC_diff)
  IN  IF time_diff_arg < -One
      THEN [ok |-> FALSE, sunset |-> 0, sunrise |-> 0]
      ELSE [ok |-> TRUE, sunset |-> sunset_MOZ + MOZ_MEZ_diff,
            sunrise |-> sunrise_MOZ + MOZ_MEZ_diff]

\* static values for the year 2012
month_lengths == <<31, 29, 31, 30, 31, 30, 31, 31, 30, 31, 30, 31>>
RECURSIVE month_first_day(_)
month_first_day(m) == IF m = 1 THEN 0 ELSE month_first_day(m - 1) + month_lengths[m - 1]
SummerTimeBegin == 87
WinterTimeBegin == 301
timezone == 1
seasons == <<"Winter", "Transition", "Summer">>
season_months == <<  <<1, 2, 3, 11, 12>>, <<4, 9, 10>>, <<5, 6, 7, 8>>  >>
SeasonIds == 0..(Len(seasons) - 1)
MonthsOf(sid) == season_months[sid + 1]

\* iadd: the count of days in the season
RECURSIVE DaysInMonths(_)
DaysInMonths(ms) ==
  IF ms = <<>> THEN 0 ELSE month_lengths[Head(ms)] + DaysInMonths(Tail(ms))
iadd(sid) == DaysInMonths(MonthsOf(sid))

UTCDiff(day) ==
  timezone + Min(Max(day - SummerTimeBegin, 0), 1) - Min(Max(day - WinterTimeBegin, 0), 1)

\* the positions a[start:stop] selects in an array of length n: a negative
\* bound counts from the end, a bound beyond an end is cut to it
SliceIndex(i, n) == IF i < 0 THEN Max(i + n, 0) ELSE Min(i, n)
Slice(start, stop, n) ==
  {t \in 0..(n - 1) : SliceIndex(start, n) <= t /\ t < SliceIndex(stop, n)}

\* the arguments tried: (lat, lon) in whole degrees, and nTsLP
Sites == {<<51, 10>>, <<51, 120>>, <<80, 10>>}
StepCounts == {24, 96}
Steps(n) == 0..(n - 1)

NoDay == [sunrise |-> 0, sunset |-> 0, NEnd |-> 0, NBeg |-> 0, season |-> 0,
          hits |-> <<>>]

\* the call, up to the first pass through the innermost loop
probability_light_needed ==
  /\ Idle
  /\ \E site \in Sites, n \in StepCounts :
       /\ lat' = site[1] /\ lon' = site[2] /\ nTsLP' = n
       /\ p_night' = [sid \in SeasonIds |-> [t \in Steps(n) |-> 0]]
       /\ night_days' = [sid \in SeasonIds |-> [t \in Steps(n) |-> 0]]
  /\ pc' = "loop"
  /\ season_id' = 0 /\ mi' = 1 /\ d' = 0
  /\ doy' = month_first_day(MonthsOf(0)[1])
  /\ today' = NoDay
  /\ UNCHANGED <<spatial_vars, temporal_vars>>

\* the loop control after a day: next day, next month, next season or return
Advance ==
  IF d + 1 < month_lengths[MonthsOf(season_id)[mi]]
  THEN /\ d' = d + 1 /\ doy' = doy + 1
       /\ UNCHANGED <<pc, season_id, mi>>
  ELSE IF mi < Len(MonthsOf(season_id))
  THEN /\ d' = 0 /\ mi' = mi + 1
       /\ doy' = month_first_day(MonthsOf(season_id)[mi + 1])
       /\ UNCHANGED <<pc, season_id>>
  ELSE IF season_id + 1 < Len(seasons)
  THEN /\ d' = 0 /\ mi' = 1 /\ season_id' = season_id + 1
       /\ doy' = month_first_day(MonthsOf(season_id + 1)[1])
       /\ UNCHANGED pc
  ELSE /\ pc' = "done"
       /\ doy' = doy + 1
       /\ UNCHANGED <<season_id, mi, d>>

\* what one pass of the innermost loop computes for day `day`
DayValues(day, la, lo, n) ==
  LET sun == getSunsetSunrise(day, la, lo, UTCDiff(day))
      TsH == FDiv(Fix(n), Fix(24))
      hoursBeforeSunset == 0
  IN  [ok |-> sun.ok, sunrise |-> sun.sunrise, sunset |-> sun.sunset,
       NEnd |-> Trunc(FMul(sun.sunrise + hoursBeforeSunset, TsH)),
       NBeg |-> Trunc(FMul(sun.sunset - hoursBeforeSunset, TsH) + 999000),
       first_dark |-> Ceil(FMul(sun.sunset, TsH)),
       first_light |-> Floor(FMul(sun.sunrise, TsH))]

\* one pass of the innermost loop (the body for one day):
\*   p_night[0:NEnd, season_id] += add;  p_night[NBeg:nTsLP, season_id] += add
\* (each value is bound once, by \E over a one-element set)
Day ==
  /\ pc = "loop"
  /\ \E v \in {DayValues(doy + 1, lat, lon, nTsLP)} :
       \E morning \in {Slice(0, v.NEnd, nTsLP)}, evening \in {Slice(v.NBeg, nTsLP, nTsLP)} :
         LET hits == [t \in Steps(nTsLP) |->
                        (IF t \in morning THEN 1 ELSE 0) + (IF t \in evening THEN 1 ELSE 0)]
             dark == [t \in Steps(nTsLP) |->
                        IF t < v.first_light \/ t >= v.first_dark THEN 1 ELSE 0]
         IN  /\ v.ok
             /\ p_night' = [p_night EXCEPT ![season_id] =
                              [t \in Steps(nTsLP) |-> p_night[season_id][t] + hits[t]]]
             /\ night_days' = [night_days EXCEPT ![season_id] =
                              [t \in Steps(nTsLP) |-> night_days[season_id][t] + dark[t]]]
             /\ today' = [sunrise |-> v.sunrise, sunset |-> v.sunset, NEnd |-> v.NEnd,
                          NBeg |-> v.NBeg, season |-> season_id, hits |-> hits]
  /\ Advance
  /\ UNCHANGED <<lat, lon, nTsLP, spatial_vars, temporal_vars>>

\* math.acos raises inside getSunsetSunrise: the call ends with ValueError
DayRaises ==
  /\ pc = "loop"
  /\ \E v \in {DayValues(doy + 1, lat, lon, nTsLP)} : ~v.ok
  /\ pc' = "ValueError"
  /\ UNCHANGED <<lat, lon, nTsLP, season_id, mi, d, doy, p_night, today,
                 night_days, spatial_vars, temporal_vars>>

Init ==
  /\ call = [fn |-> "none", sel |-> "none", weight_by_income |-> FALSE]
  /\ tables = NoTables
  /\ ret = Raised("none")
  /\ income_adjusted = FALSE
  /\ spat = NotRead /\ temp = NotRead /\ spat_in = NotRead /\ temp_in = NotRead
  /\ pc = "idle"
  /\ lat = 0 /\ lon = 0 /\ nTsLP = 0
  /\ season_id = 0 /\ mi = 0 /\ d = 0 /\ doy = 0
  /\ p_night = <<>> /\ night_days = <<>>
  /\ today = NoDay

\* the spatial functions
Next == disagg_households_power \/ disagg_households_heat \/ disagg_households_gas
Spec == Init /\ [][Next]_vars

\* the temporal function
NextTemporal == disagg_temporal
SpecTemporal == Init /\ [][NextTemporal]_vars

\* the solar-light heuristic
NextLight == probability_light_needed \/ Day \/ DayRaises
SpecLight == Init /\ [][NextLight]_vars

\* ------------------------------------------------------ claims, spatial.py
RECURSIVE IntSum(_, _)
IntSum(f, S) ==
  IF S = {} THEN 0
  ELSE LET k == CHOOSE k \in S : TRUE IN f[k] + IntSum(f, S \ {k})

\* the rational x is the fraction num / den
IsFraction(x, num, den) == x[2] > 0 /\ den # 0 /\ x[1] * den = num * x[2]
ColumnTotal(df, c) == SumOver([r \in Regions |-> df[r][c]], Regions)

PowerTopDownCall ==
  /\ call.fn = "disagg_households_power" /\ call.sel = "population"
  /\ ~call.weight_by_income /\ ret.kind = "table"
GasTopDownCall ==
  /\ call.fn = "disagg_households_gas" /\ call.sel = "top-down"
  /\ ~call.weight_by_income /\ ret.kind = "table"
HouseholdsOf(r) == IntSum(tables.households_per_size[r], HHSizes)
GasLivingSpaceOf(r) == IntSum(tables.living_space[r], BuildingTypes)
AllHouseholds == IntSum([r \in Regions |-> HouseholdsOf(r)], Regions)
AllGasLivingSpace == IntSum([r \in Regions |-> GasLivingSpaceOf(r)], Regions)
AllPopulation == IntSum(tables.population, Regions)

\* C1: top-down allocation without income weighting gives region r the
\* national value times its share of the key table (population for power;
\* households for Cooking and HotWater, gas living space for SpaceHeating),
\* and every column of the result sums to the national value.
C1_TopDownConservesNationalTotal ==
  /\ (PowerTopDownCall /\ AllPopulation # 0) =>
       /\ \A r \in Regions :
            IsFraction(ret.df[r]["value"],
                       tables.elc_consumption * tables.population[r],
                       Kilo * AllPopulation)
       /\ IsFraction(ColumnTotal(ret.df, "value"), tables.elc_consumption, Kilo)
  /\ (GasTopDownCall /\ AllHouseholds # 0 /\ AllGasLivingSpace # 0) =>
       /\ \A r \in Regions :
            /\ IsFraction(ret.df[r]["Cooking"],
                          tables.gas_consumption["Cooking"] * HouseholdsOf(r),
                          AllHouseholds)
            /\ IsFraction(ret.df[r]["HotWater"],
                          tables.gas_consumption["HotWater"] * HouseholdsOf(r),
                          AllHouseholds)
            /\ IsFraction(ret.df[r]["SpaceHeating"],
                          tables.gas_consumption["SpaceHeating"] * GasLivingSpaceOf(r),
                          AllGasLivingSpace)
       /\ \A c \in GasApplications :
            IsFraction(ColumnTotal(ret.df, c), tables.gas_consumption[c], 1)

\* a top-down gas call whose regions differ in both keys, and a different
\* national value per column
C1_Witness ==
  /\ GasTopDownCall
  /\ HouseholdsOf(1) # HouseholdsOf(2)
  /\ GasLivingSpaceOf(1) # GasLivingSpaceOf(2)
  /\ HouseholdsOf(1) * AllGasLivingSpace # GasLivingSpaceOf(1) * AllHouseholds
  /\ tables.gas_consumption["Cooking"] # tables.gas_consumption["SpaceHeating"]

\* the result of the call had weight_by_income been False, from the tables
\* the call read
UnweightedResult ==
  IF call.fn = "disagg_households_power" THEN
    IF call.sel = "households"
    THEN PowerByHouseholds(tables.households_per_size, tables.elc_consumption)
    ELSE PowerByPopulation(tables.population, tables.elc_consumption)
  ELSE IF call.fn = "disagg_households_heat" THEN
    HeatDemand(call.sel,
               IF call.sel = "households" THEN tables.households_per_size
               ELSE tables.living_space,
               tables.heat_consumption)
  ELSE IF call.sel = "top-down"
    THEN GasTopDown(tables.living_space, tables.households_per_size,
                    tables.gas_consumption)
    ELSE GasBottomUp(tables.households_per_size, tables.heat_consumption[1],
                     tables.living_space, tables.heat_consumption[2],
                     tables.stove_assumptions, tables.hotwater_shares)

SpatialFunctions ==
  {"disagg_households_power", "disagg_households_heat", "disagg_households_gas"}

\* C4: for each of the three spatial functions, the result with
\* weight_by_income=True is the result with weight_by_income=False with every
\* value of region r multiplied by income[r] / mean(income).
C4_IncomeWeightingScalesRows ==
  (call.fn \in SpatialFunctions /\ call.weight_by_income /\ ret.kind = "table") =>
    \A r \in Regions : \A c \in DOMAIN ret.df[r] :
      RMul(ret.df[r][c], Rat(IntSum(tables.income, Regions)))
        = RMul(UnweightedResult[r][c], Rat(tables.income[r] * NRegions))

\* C5: disagg_households_power raises ValueError exactly for `by` outside
\* {'households', 'population'}, for both values of weight_by_income, and then
\* adjusts nothing by income and returns no table.
C5_PowerRejectsUnknownBy ==
  call.fn = "disagg_households_power" =>
    /\ call.sel \notin {"households", "population"} =>
         /\ ret.kind = "ValueError"
         /\ ~income_adjusted
         /\ tables = NoTables
    /\ call.sel \in {"households", "population"} => ret.kind = "table"

C5_Witness ==
  /\ call.fn = "disagg_households_power"
  /\ call.sel = "buildings"
  /\ call.weight_by_income
  /\ ret.kind = "ValueError"

\* C6: disagg_households_heat returns a table for each `by` in
\* {'households', 'population', 'buildings'} and raises ValueError only for a
\* `by` outside that set.
C6_HeatAcceptsDocumentedBy ==
  call.fn = "disagg_households_heat" =>
    /\ call.sel \in {"households", "population", "buildings"} => ret.kind = "table"
    /\ ret.kind = "ValueError" =>
         call.sel \notin {"households", "population", "buildings"}


\* ----------------------------------------------------- claims, temporal.py
TemporalCall(kind) ==
  /\ call.fn = "disagg_temporal" /\ ret.kind = "table"
  /\ temp_in.kind = kind

\* the cell of the result for region r and time step t, whatever the layout
Cell(r, t) ==
  IF ret.df.index = "region" THEN ret.df.cell[r][t] ELSE ret.df.cell[t][r]
RegionTotal(r) == SumOver([t \in Times |-> Cell(r, t)], Times)
\* the integer a whole-number argument entry holds
Whole(x) == x[1]
IntRow(ser) == [k \in DOMAIN ser |-> Whole(ser[k])]

\* C2: with a Series `temp` of non-zero sum the cell for region r and step t
\* is spat[r] * temp[t] / sum(temp); with a region-indexed DataFrame `temp` it
\* is spat[r] * temp[r][t] / sum_t temp[r][t]; in both cases the cells of
\* region r sum to spat[r].
C2_TemporalConservesRegionalTotals ==
  /\ (TemporalCall("Series") /\ IntSum(IntRow(temp_in.data), Times) # 0) =>
       \A r \in Regions :
         /\ \A t \in Times :
              IsFraction(Cell(r, t), Whole(spat_in.data[r]) * Whole(temp_in.data[t]),
                         IntSum(IntRow(temp_in.data), Times))
         /\ RegionTotal(r) = spat_in.data[r]
  /\ TemporalCall("DataFrame") =>
       \A r \in Regions :
         IntSum(IntRow(temp_in.data[r]), Times) # 0 =>
           /\ \A t \in Times :
                IsFraction(Cell(r, t), Whole(spat_in.data[r]) * Whole(temp_in.data[r][t]),
                           IntSum(IntRow(temp_in.data[r]), Times))
           /\ RegionTotal(r) = spat_in.data[r]

\* a shared time series with unequal steps spread over regions of unequal size
C2_Witness ==
  /\ TemporalCall("Series")
  /\ Whole(temp_in.data[1]) # Whole(temp_in.data[2])
  /\ IntSum(IntRow(temp_in.data), Times) > 1
  /\ Whole(spat_in.data[1]) > 0
  /\ Whole(spat_in.data[1]) # Whole(spat_in.data[2])

\* C3: disagg_temporal leaves the caller's `spat` and `temp` as they were,
\* on every path.
C3_TemporalLeavesArgumentsUnchanged ==
  call.fn = "disagg_temporal" => (spat = spat_in /\ temp = temp_in)

\* C9: for both kinds of `temp`, time_indexed=True gives rows = time steps and
\* columns = regions, time_indexed=False gives rows = regions and columns =
\* time steps, and the one result is the transpose of the other.
C9_TimeIndexedLayout ==
  (call.fn = "disagg_temporal" /\ ret.kind = "table") =>
    /\ call.time_indexed => (ret.df.index = "time" /\ ret.df.columns = "region")
    /\ ~call.time_indexed => (ret.df.index = "region" /\ ret.df.columns = "time")
    /\ ret.df = Transpose(DisaggTemporal(spat_in, temp_in, ~call.time_indexed).ret.df)


\* ------------------------------ claims, probability_light_needed
DayProcessed == pc \in {"loop", "done"} /\ today.hits # <<>>

\* C7: every value of the returned curve is a probability, 0 <= p_night <= 1
\* (p_night[season][t] counts additions of add = 1 / iadd(season)), i.e. on
\* no day does a time step receive the day's weight more than once.
C7_LightNeedIsAProbability ==
  /\ pc = "done" =>
       \A sid \in SeasonIds : \A t \in Steps(nTsLP) :
         0 <= p_night[sid][t] /\ p_night[sid][t] <= iadd(sid)
  /\ DayProcessed => \A t \in Steps(nTsLP) : today.hits[t] <= 1

\* C8: on each day step t receives the weight exactly when
\* t < floor(sunrise * nTsLP/24) or t >= ceil(sunset * nTsLP/24); every month
\* is in exactly one season; so p_night[season][t] counts the days of the
\* season on which step t lies outside the daylight window.
C8_WeightExactlyOutsideDaylight ==
  /\ DayProcessed =>
       LET TsH == FDiv(Fix(nTsLP), Fix(24))
           first_light == Floor(FMul(today.sunrise, TsH))
           first_dark == Ceil(FMul(today.sunset, TsH))
       IN  \A t \in Steps(nTsLP) :
             today.hits[t] = IF t < first_light \/ t >= first_dark THEN 1 ELSE 0
  /\ \A m \in 1..Len(month_lengths) :
       Cardinality({sid \in SeasonIds :
                      \E k \in 1..Len(MonthsOf(sid)) : MonthsOf(sid)[k] = m}) = 1
  /\ pc \in {"loop", "done"} => p_night = night_days

====
